---- MODULE Spec2Model ----
(***************************************************************************)
(* A model of the ClimbNThrive TSX screener's fetch orchestration:         *)
(*   - DataProcessor.processSymbols / createBatches   (data-processor.ts)  *)
(*   - TsxOptimizedFetcher.fetchOptimizedQuote and its cache               *)
(*                                                    (tsx-optimized.ts)   *)
(*   - withRetry / calculateDelay                     (retry utility)      *)
(* Entities are identified by their position in the input array.           *)
(***************************************************************************)
EXTENDS Integers, Sequences, FiniteSets, TLC

\* ------------------------------------------------------------------ bounds
MaxSymbols == 3        \* longest input array explored
MaxConcurrency == 2    \* largest configured concurrency explored (0 included)
\* Cap on the batches array. A terminating createBatches makes at most
\* Len(symbols) batches, so only a loop that never ends reaches the cap.
MaxBatches == MaxSymbols + 1

\* ------------------------------------------------------- program constants
maxConcurrent == 4         \* Bottleneck maxConcurrent of the optimized fetcher
DEFAULT_maxAttempts == 3   \* DEFAULT_RETRY_OPTIONS.maxAttempts

VARIABLES
    \* DataProcessor.processSymbols
    pc,           \* position of processSymbols
    symbols,      \* the input array (entity ids)
    batchSize,    \* this.config.concurrency
    i,            \* createBatches' loop index
    batches,      \* createBatches' result
    batchIndex,   \* the for-loop index over batches (0-based, as in the code)
    results,      \* the results accumulator
    successful,
    failed,
    summary,      \* the returned summary, or "none" before the return
    progress,     \* the progress reports made by the tasks of the latest batch
    \* per-entity task (the async arrow function of batch.map)
    st,           \* where the entity's task stands
    fetchResult,  \* what fetchOptimizedQuote gave the task: none / data / null / raised
    taskResult,   \* what the task's promise resolved to: none / success / failure
    \* TsxOptimizedFetcher
    cache,        \* state of the entity's optimized-quote.json
    queue,        \* jobs handed to the limiter, FIFO
    resp,         \* kind of response the network call got, or "none"
    attempts,     \* number of network calls issued for the entity
    \* withRetry(fn, options)
    rpc,          \* position of withRetry
    plan,         \* what fn does on its 1st, 2nd, ... invocation
    maxAttempts,  \* opts.maxAttempts
    baseDelay,    \* opts.baseDelay
    maxDelay,     \* opts.maxDelay
    jitter,       \* opts.jitter
    attempt,      \* the loop variable
    fnCalls,      \* number of invocations of fn so far
    lastError,    \* the local lastError: <<kind, invocation>>
    value,        \* the value withRetry returned
    thrown,       \* the error withRetry raised
    delay,        \* the delay last computed by calculateDelay (scaled by DelayScale)
    \* calculateDelay driven over attempt = 1, 2, ...
    dAttempt,     \* the attempt the delay was last computed for
    prevDelay,    \* the delay computed for the attempt before
    \* the file caches, one entity, time in hours
    now,          \* the clock (Date.now()), in hours
    source,       \* the data source in use: "optimized" or "official"
    optFile,      \* optimized store: the entity's optimized-quote.json
    files,        \* official store: the entity's files, by file name
    lastCall,     \* what the fetch call made at the present hour did
    \* cache directories of entity identifiers
    kstore,       \* the store whose getCacheDir is used
    idA,          \* identifier of the entity that is put
    idB,          \* identifier of the entity that is got
    disk,         \* directory -> identifier whose payload the entry holds
    got,          \* result of the last get
    \* metric functions
    hist,         \* the caller's EPS history array
    mcall,        \* the last call of a metric function: name, arguments, result
    \* console progress of the CLI, time in seconds
    wall,         \* Date.now()
    reports,      \* number of calls of the progress callback
    lines         \* the instants at which a progress line was printed

procVars == <<pc, symbols, batchSize, i, batches, batchIndex, results,
              successful, failed, summary, progress>>
taskVars == <<st, fetchResult, taskResult>>
fetchVars == <<cache, queue, resp, attempts>>
retryVars == <<rpc, plan, maxAttempts, attempt, fnCalls, lastError, value, thrown>>
delayVars == <<baseDelay, maxDelay, jitter, delay, dAttempt, prevDelay>>
storeVars == <<now, source, optFile, files, lastCall>>
keyVars == <<kstore, idA, idB, disk, got>>
metricVars == <<hist, mcall>>
reportVars == <<wall, reports, lines>>
extVars == <<storeVars, keyVars, metricVars, reportVars>>
libVars == <<retryVars, delayVars, extVars>>
vars == <<procVars, taskVars, fetchVars, libVars>>

\* ---------------------------------------------------------------- helpers
Entities == 1..Len(symbols)

\* Variant of Slice: the end index is taken in.
SliceInclusive(s, from, to) ==
    LET hi == IF to + 1 > Len(s) THEN Len(s) ELSE IF to + 1 < 0 THEN 0 ELSE to + 1
    IN  [k \in 1..(IF hi > from THEN hi - from ELSE 0) |-> s[from + k]]

\* Array.prototype.slice(from, to) for 0 <= from, with to clamped to the length
\* and to 0 from below (0-based, end exclusive).
Slice(s, from, to) ==
    LET hi == IF to > Len(s) THEN Len(s) ELSE IF to < 0 THEN 0 ELSE to
    IN  [k \in 1..(IF hi > from THEN hi - from ELSE 0) |-> s[from + k]]

SeqToSet(s) == {s[k] : k \in 1..Len(s)}

\* Kinds of response a network call can get.
TransientKinds == {"transport", "http"}                          \* fetch rejects / !response.ok
MalformedKinds == {"badJson", "schema", "gqlErrors", "nullQuote"} \* 2xx, unusable body
RespKinds == TransientKinds \cup MalformedKinds \cup {"ok"}

\* Variant of FetchOutcome: the body is used without the schema parse.
FetchOutcomeNoValidate(kind) ==
    IF kind \in {"ok", "schema"} THEN "data" ELSE "null"

\* Variant of FetchOutcome: a job whose catch lets parse failures through.
FetchOutcomeRethrow(kind) ==
    IF kind = "ok" THEN "data"
    ELSE IF kind \in {"badJson", "schema"} THEN "raised" ELSE "null"

\* What the scheduled job of fetchOptimizedQuote returns for a response kind.
\* Every throw inside the job (fetch rejection, !response.ok, response.json(),
\* schema parse) lands in the job's own catch, which returns null.
FetchOutcome(kind) ==
    IF kind = "ok" THEN "data" ELSE "null"

\* Variant of JobResult: saveToCache without its own try/catch, so that a
\* failed write is thrown into the job's catch.
JobResultWriteThrows(kind, writeOk) ==
    IF kind = "ok" /\ ~writeOk THEN "null" ELSE FetchOutcome(kind)

\* What the scheduled job returns once saveToCache has run: saveToCache
\* catches every error of mkdir/writeFile itself (a warning is printed), so
\* the outcome of the write does not enter the result.
JobResult(kind, writeOk) == FetchOutcome(kind)

\* Variant of SettleResult: the  if (quoteData)  test is missing.
SettleResultNoNullCheck(fr) ==
    IF fr = "raised" THEN "failure" ELSE "success"

\* What the entity's task resolves to: success only with a payload; a null
\* payload and a caught exception both give success: false.
SettleResult(fr) ==
    IF fr = "data" THEN "success" ELSE "failure"

\* Variant of CacheHit: the cache is never consulted.
CacheHitNever(c) == FALSE

\* loadFromCache: a hit only for a readable entry younger than 24 h.
CacheHit(c) == c = "valid"

\* Bottleneck: number of jobs running.
running == Cardinality({e \in Entities : st[e] = "FETCHING"})

CurrentBatch == batches[batchIndex + 1]

\* Variant of BatchSettled: Promise.race in place of Promise.all.
BatchSettledAny(b) == \E k \in 1..Len(b) : st[b[k]] = "SETTLED"

\* Promise.all(batchPromises): resolves once every task of the batch resolved
\* (no task rejects: each has its own try/catch).
BatchSettled(b) == \A k \in 1..Len(b) : st[b[k]] = "SETTLED"

\* Variant of BatchFailures: a thrown task is not counted.
BatchFailuresDropThrown(b) ==
    {k \in 1..Len(b) : taskResult[b[k]] # "success" /\ fetchResult[b[k]] # "raised"}

\* The batch results that count as failures in the collecting loop.
BatchFailures(b) == {k \in 1..Len(b) : taskResult[b[k]] # "success"}

\* Variant of BatchSuccesses: the batch results are walked from the end.
BatchSuccessesReversed(b) ==
    LET ok == SelectSeq(b, LAMBDA e : taskResult[e] = "success")
    IN  [k \in 1..Len(ok) |-> ok[Len(ok) + 1 - k]]

\* The successful entities of a batch, in batch order.
BatchSuccesses(b) == SelectSeq(b, LAMBDA e : taskResult[e] = "success")

\* The argument of the progress callback in the task of the entity at
\* symbolIndex of the current batch: completed is overallIndex.
ProgressReport(symbolIndex, e) ==
    [completed |-> batchIndex * batchSize + symbolIndex,
     total |-> Len(symbols),
     failed |-> failed,
     currentSymbol |-> e]

\* The critical fields convertToFinancialMetrics can set; each is present or
\* undefined according to the payload.
ConvertedCritical == {"roe", "roic"}

Tiers == {"complete", "partial", "minimal"}

\* Variant of assessDataQuality: the final  return 'minimal'  is missing.
assessDataQualityNoDefault(availableFields) ==
    IF availableFields >= 4 THEN "complete"
    ELSE IF availableFields >= 2 THEN "partial"
    ELSE "undefined"

\* assessDataQuality, from the number of critical fields that are neither
\* null nor undefined.
assessDataQuality(availableFields) ==
    IF availableFields >= 4 THEN "complete"
    ELSE IF availableFields >= 2 THEN "partial"
    ELSE "minimal"

\* The tiers of the records convertToFinancialMetrics builds: any number of
\* its critical fields may be present.
ConvertedTiers ==
    {assessDataQuality(n) : n \in 0..Cardinality(ConvertedCritical)}

\* ------------------------------------------------------------------- Init
ProcInit ==
    /\ \E n \in 0..MaxSymbols : symbols = [k \in 1..n |-> k]
    /\ batchSize \in 0..MaxConcurrency
    /\ pc = "createBatches"
    /\ i = 0
    /\ batches = <<>>
    /\ batchIndex = 0
    /\ results = <<>>
    /\ successful = 0
    /\ failed = 0
    /\ summary = "none"
    /\ progress = <<>>
    /\ st = [e \in Entities |-> "PENDING"]
    /\ fetchResult = [e \in Entities |-> "none"]
    /\ taskResult = [e \in Entities |-> "none"]
    /\ cache \in [Entities -> {"none", "valid", "expired"}]
    /\ queue = <<>>
    /\ resp = [e \in Entities |-> "none"]
    /\ attempts = [e \in Entities |-> 0]

\* ---------------------------------------------------------- createBatches
\* One iteration of  for (i = 0; i < items.length; i += batchSize).
\* With batchSize = 0 the index never moves and the code goes on pushing empty
\* batches for ever; the model follows that loop up to MaxBatches pushes and
\* stays in the loop from there on.
CreateBatchesStep ==
    /\ pc = "createBatches"
    /\ i < Len(symbols)
    /\ Len(batches) < MaxBatches
    /\ batches' = Append(batches, Slice(symbols, i, i + batchSize))
    /\ i' = i + batchSize
    /\ UNCHANGED <<pc, symbols, batchSize, batchIndex, results, successful,
                   failed, summary, progress, taskVars, fetchVars, libVars>>

CreateBatchesReturn ==
    /\ pc = "createBatches"
    /\ ~(i < Len(symbols))
    /\ pc' = "forBatch"
    /\ UNCHANGED <<symbols, batchSize, i, batches, batchIndex, results,
                   successful, failed, summary, progress, taskVars, fetchVars, libVars>>

\* --------------------------------------------------------- processSymbols
\* batch.map(async ...): every task of the batch runs synchronously up to its
\* first suspension. A task whose try block raises before the fetch is under
\* way (its progress callback, or fetchOptimizedQuote rejecting) is left with
\* a rejected await; the others are inside loadFromCache.
DispatchBatch ==
    /\ pc = "forBatch"
    /\ batchIndex < Len(batches)
    /\ \E T \in SUBSET SeqToSet(CurrentBatch) :
          /\ st' = [e \in Entities |->
                      IF e \in SeqToSet(CurrentBatch)
                      THEN (IF e \in T THEN "REJECTED" ELSE "CACHE_CHECK")
                      ELSE st[e]]
          /\ fetchResult' = [e \in Entities |->
                      IF e \in T THEN "raised" ELSE fetchResult[e]]
    /\ progress' = [k \in 1..Len(CurrentBatch) |->
                        ProgressReport(k - 1, CurrentBatch[k])]
    /\ pc' = "awaitAll"
    /\ UNCHANGED <<symbols, batchSize, i, batches, batchIndex, results,
                   successful, failed, summary, taskResult, fetchVars, libVars>>

\* fetchOptimizedQuote after loadFromCache: a hit is returned at once, a miss
\* hands the job to the limiter.
CacheCheckDone(e) ==
    /\ st[e] = "CACHE_CHECK"
    /\ IF CacheHit(cache[e])
       THEN /\ st' = [st EXCEPT ![e] = "RETURNED"]
            /\ fetchResult' = [fetchResult EXCEPT ![e] = "data"]
            /\ UNCHANGED queue
       ELSE /\ st' = [st EXCEPT ![e] = "QUEUED"]
            /\ queue' = Append(queue, e)
            /\ UNCHANGED fetchResult
    /\ UNCHANGED <<procVars, taskResult, cache, resp, attempts, libVars>>

\* Variant of LimiterStart: a limiter without maxConcurrent.
LimiterStartUncapped ==
    /\ queue # <<>>
    /\ st' = [st EXCEPT ![Head(queue)] = "FETCHING"]
    /\ attempts' = [attempts EXCEPT ![Head(queue)] = @ + 1]
    /\ queue' = Tail(queue)
    /\ UNCHANGED <<procVars, fetchResult, taskResult, cache, resp, libVars>>

\* The limiter starts the job at the head of its queue when fewer than
\* maxConcurrent jobs run: the network call is issued. minTime and the
\* reservoir (120 tokens, refilled every minute) only put a start off in time;
\* time is not modelled, so a start may come arbitrarily late.
LimiterStart ==
    /\ queue # <<>>
    /\ running < maxConcurrent
    /\ st' = [st EXCEPT ![Head(queue)] = "FETCHING"]
    /\ attempts' = [attempts EXCEPT ![Head(queue)] = @ + 1]
    /\ queue' = Tail(queue)
    /\ UNCHANGED <<procVars, fetchResult, taskResult, cache, resp, libVars>>

\* Variant of ReceiveAs: whatever the job ends with is written to the cache.
ReceiveAsCachesAll(e, kind, writeOk) ==
    /\ st[e] = "FETCHING"
    /\ resp' = [resp EXCEPT ![e] = kind]
    /\ fetchResult' = [fetchResult EXCEPT ![e] = JobResult(kind, writeOk)]
    /\ cache' = [cache EXCEPT ![e] = IF writeOk THEN "valid" ELSE @]
    /\ st' = [st EXCEPT ![e] = "RETURNED"]
    /\ UNCHANGED <<procVars, taskResult, queue, attempts, libVars>>

\* The network call ends with a response of some kind; on a usable quote the
\* payload is written to the cache (best effort) and returned.
ReceiveAs(e, kind, writeOk) ==
    /\ st[e] = "FETCHING"
    /\ resp' = [resp EXCEPT ![e] = kind]
    /\ fetchResult' = [fetchResult EXCEPT ![e] = JobResult(kind, writeOk)]
    /\ cache' = [cache EXCEPT ![e] =
                    IF kind = "ok" /\ writeOk THEN "valid" ELSE @]
    /\ st' = [st EXCEPT ![e] = "RETURNED"]
    /\ UNCHANGED <<procVars, taskResult, queue, attempts, libVars>>

Receive(e) ==
    /\ st[e] = "FETCHING"
    /\ \E kind \in RespKinds, writeOk \in BOOLEAN :
          /\ kind # "ok" => writeOk
          /\ ReceiveAs(e, kind, writeOk)

\* The task resumes after its await and resolves.
Settle(e) ==
    /\ st[e] \in {"RETURNED", "REJECTED"}
    /\ taskResult' = [taskResult EXCEPT ![e] = SettleResult(fetchResult[e])]
    /\ st' = [st EXCEPT ![e] = "SETTLED"]
    /\ UNCHANGED <<procVars, fetchResult, fetchVars, libVars>>

\* await Promise.all, then the loop over batchResults.
CollectBatch ==
    /\ pc = "awaitAll"
    /\ BatchSettled(CurrentBatch)
    /\ results' = results \o BatchSuccesses(CurrentBatch)
    /\ successful' = successful + Len(BatchSuccesses(CurrentBatch))
    /\ failed' = failed + Cardinality(BatchFailures(CurrentBatch))
    /\ batchIndex' = batchIndex + 1
    /\ pc' = "forBatch"
    /\ UNCHANGED <<symbols, batchSize, i, batches, summary, progress, taskVars,
                   fetchVars, libVars>>

\* The loop is over: the data-quality tiers of the records are counted and
\* the summary is returned. The tier of a record is assessDataQuality of the
\* metrics built from its payload; payload contents are not variables of the
\* model, so the tier of each record is drawn here from the tiers a
\* converted record can have.
Return ==
    /\ pc = "forBatch"
    /\ ~(batchIndex < Len(batches))
    /\ \E tier \in [SeqToSet(results) -> ConvertedTiers] :
          summary' = [total |-> Len(symbols),
                      successful |-> successful,
                      failed |-> failed,
                      dataQuality |->
                          [t \in Tiers |->
                              Cardinality({k \in 1..Len(results) :
                                  tier[results[k]] = t})]]
    /\ pc' = "returned"
    /\ UNCHANGED <<symbols, batchSize, i, batches, batchIndex, results,
                   successful, failed, progress, taskVars, fetchVars, libVars>>

\* ============================================================ retry utility
MaxRetryAttempts == 3  \* largest opts.maxAttempts explored (0 included)
MaxBaseDelay == 3      \* largest opts.baseDelay explored
MaxMaxDelay == 5       \* largest opts.maxDelay explored
MaxDelayAttempt == 4   \* largest attempt calculateDelay is driven to
RandDen == 4           \* Math.random() is explored as r / RandDen, r in 0..RandDen-1

\* Delays are carried as integers: a delay of x ms is the number x * DelayScale,
\* which keeps delay * 0.25 * (2 * random - 1) exact.
DelayScale == 4 * RandDen

RECURSIVE Pow2(_)
Pow2(n) == IF n <= 0 THEN 1 ELSE 2 * Pow2(n - 1)

Min(a, b) == IF a < b THEN a ELSE b
Max(a, b) == IF a > b THEN a ELSE b

\* Variant of calculateDelay: the Math.min with maxDelay is missing.
calculateDelayUnclamped(k, base, maxD, jit, r) ==
    LET exponentialDelay == base * Pow2(k - 1)
        jitterNum == IF jit THEN (2 * r - RandDen) * exponentialDelay ELSE 0
    IN  Max(exponentialDelay * DelayScale + jitterNum, 0)

\* calculateDelay(attempt, baseDelay, maxDelay, jitter), with r the draw of
\* Math.random() in RandDen-ths. The result is scaled by DelayScale.
calculateDelay(k, base, maxD, jit, r) ==
    LET exponentialDelay == base * Pow2(k - 1)
        d == Min(exponentialDelay, maxD)
        \* jitterAmount = d * 0.25; (random - 0.5) * 2 * jitterAmount, scaled
        jitterNum == IF jit THEN (2 * r - RandDen) * d ELSE 0
    IN  Max(d * DelayScale + jitterNum, 0)

\* What fn can do on one invocation: resolve, or reject with a transport error,
\* a non-2xx HTTP error, or a schema-validation error.
FnOutcomes == {"ok", "transport", "http", "validation"}

Undefined == <<"undefined", 0>>                 \* lastError before any catch
NoError == [name |-> "none", attempts |-> 0, lastError |-> Undefined]
NoValue == [call |-> 0]

\* new RetryError(message, attempts, lastError)
RetryError(n, last) == [name |-> "RetryError", attempts |-> n, lastError |-> last]

\* throw lastError!  -- the caught error itself, or undefined
Rethrown(last) == [name |-> last[1], attempts |-> 0, lastError |-> last]

\* Variant of LoopContinues: an off-by-one loop test.
LoopContinuesStrict(a, m) == a < m

\* The for-loop's test, attempt <= opts.maxAttempts.
LoopContinues(a, m) == a <= m

\* The state of the three parts when they are not the part under study.
ProcIdle ==
    /\ pc = "idle" /\ symbols = <<>> /\ batchSize = 0 /\ i = 0 /\ batches = <<>>
    /\ batchIndex = 0 /\ results = <<>> /\ successful = 0 /\ failed = 0
    /\ summary = "none" /\ progress = <<>> /\ st = <<>> /\ fetchResult = <<>> /\ taskResult = <<>>
    /\ cache = <<>> /\ queue = <<>> /\ resp = <<>> /\ attempts = <<>>

RetryIdle ==
    /\ rpc = "idle" /\ plan = <<>> /\ maxAttempts = 0 /\ attempt = 0 /\ fnCalls = 0
    /\ lastError = Undefined /\ value = NoValue /\ thrown = NoError

DelayIdle ==
    /\ baseDelay = 0 /\ maxDelay = 0 /\ jitter = FALSE /\ delay = 0
    /\ dAttempt = 0 /\ prevDelay = 0

NoFile == [kind |-> "missing", stamp |-> 0]
NoOp == [op |-> "none", file |-> NoFile, load |-> "none", net |-> FALSE, ret |-> "none"]

NoGot == [found |-> FALSE, owner |-> <<>>]

StoreIdle ==
    /\ now = 0 /\ source = "none" /\ optFile = NoFile /\ files = <<>> /\ lastCall = NoOp

NoCall == [fn |-> "none", input |-> <<>>, result |-> <<"none", 0>>]

MetricIdle == hist = <<>> /\ mcall = NoCall

ReportIdle == wall = 0 /\ reports = 0 /\ lines = <<>>

KeyIdle ==
    /\ kstore = "none" /\ idA = <<>> /\ idB = <<>> /\ disk = {} /\ got = NoGot

\* ---------------------------------------------------------------- withRetry
\* withRetry is entered: opts is built, lastError is declared, attempt = 1.
RetryInit ==
    /\ ProcIdle
    /\ StoreIdle
    /\ KeyIdle
    /\ MetricIdle
    /\ ReportIdle
    /\ rpc = "forAttempt"
    /\ maxAttempts \in 0..MaxRetryAttempts
    /\ plan \in [1..MaxRetryAttempts -> FnOutcomes]
    /\ baseDelay \in {1, MaxBaseDelay}
    /\ maxDelay \in {2, MaxMaxDelay}
    /\ jitter \in BOOLEAN
    /\ attempt = 1
    /\ fnCalls = 0
    /\ lastError = Undefined
    /\ value = NoValue
    /\ thrown = NoError
    /\ delay = 0
    /\ dAttempt = 0
    /\ prevDelay = 0

\* try { return await fn(); : fn is invoked.
RetryInvoke ==
    /\ rpc = "forAttempt"
    /\ LoopContinues(attempt, maxAttempts)
    /\ fnCalls' = fnCalls + 1
    /\ rpc' = "awaitFn"
    /\ UNCHANGED <<plan, maxAttempts, attempt, lastError, value, thrown,
                   delayVars, procVars, taskVars, fetchVars, extVars>>

\* fn resolves: withRetry returns its value.
RetryFnResolves ==
    /\ rpc = "awaitFn"
    /\ plan[fnCalls] = "ok"
    /\ value' = [call |-> fnCalls]
    /\ rpc' = "returned"
    /\ UNCHANGED <<plan, maxAttempts, attempt, fnCalls, lastError, thrown,
                   delayVars, procVars, taskVars, fetchVars, extVars>>

\* fn rejects: the catch block. On the last attempt RetryError is raised,
\* otherwise the delay is computed and withRetry sleeps.
RetryFnRejects ==
    /\ rpc = "awaitFn"
    /\ plan[fnCalls] # "ok"
    /\ lastError' = <<plan[fnCalls], fnCalls>>
    /\ IF attempt = maxAttempts
       THEN /\ thrown' = RetryError(attempt, lastError')
            /\ rpc' = "thrown"
            /\ UNCHANGED delay
       ELSE /\ \E r \in 0..(RandDen - 1) :
                  delay' = calculateDelay(attempt, baseDelay, maxDelay, jitter, r)
            /\ rpc' = "sleeping"
            /\ UNCHANGED thrown
    /\ UNCHANGED <<plan, maxAttempts, attempt, fnCalls, value,
                   baseDelay, maxDelay, jitter, dAttempt, prevDelay,
                   procVars, taskVars, fetchVars, extVars>>

\* await sleep(delay) ends; attempt++.
RetryWake ==
    /\ rpc = "sleeping"
    /\ attempt' = attempt + 1
    /\ rpc' = "forAttempt"
    /\ UNCHANGED <<plan, maxAttempts, fnCalls, lastError, value, thrown,
                   delayVars, procVars, taskVars, fetchVars, extVars>>

\* The loop is left without a return or a throw from inside: throw lastError!
RetryLoopExit ==
    /\ rpc = "forAttempt"
    /\ ~LoopContinues(attempt, maxAttempts)
    /\ thrown' = Rethrown(lastError)
    /\ rpc' = "thrown"
    /\ UNCHANGED <<plan, maxAttempts, attempt, fnCalls, lastError, value,
                   delayVars, procVars, taskVars, fetchVars, extVars>>

RetryNext ==
    \/ RetryInvoke
    \/ RetryFnResolves
    \/ RetryFnRejects
    \/ RetryWake
    \/ RetryLoopExit

\* ----------------------------------------------------------- calculateDelay
\* calculateDelay called for attempt = 1, 2, ... with fixed options, as the
\* catch block of withRetry calls it.
DelayInit ==
    /\ ProcIdle
    /\ RetryIdle
    /\ StoreIdle
    /\ KeyIdle
    /\ MetricIdle
    /\ ReportIdle
    /\ baseDelay \in 0..MaxBaseDelay
    /\ maxDelay \in 0..MaxMaxDelay
    /\ jitter \in BOOLEAN
    /\ dAttempt = 0
    /\ delay = 0
    /\ prevDelay = 0

ComputeDelay ==
    /\ dAttempt < MaxDelayAttempt
    /\ dAttempt' = dAttempt + 1
    /\ prevDelay' = delay
    /\ \E r \in 0..(RandDen - 1) :
          delay' = calculateDelay(dAttempt + 1, baseDelay, maxDelay, jitter, r)
    /\ UNCHANGED <<baseDelay, maxDelay, jitter, retryVars, procVars, taskVars, fetchVars, extVars>>

DelayNext == ComputeDelay

\* ============================================================== file caches
\* One entity's cache entries over time. Time is counted in whole hours.
MaxClock == 26         \* the clock runs from 0 to MaxClock hours

\* const maxAge = 24 * 60 * 60 * 1000 of TsxOptimizedFetcher.loadFromCache, in hours.
maxAge == 24

\* The maxAgeHours argument of the official source's loadFromCache calls.
MaxAgeHours(kind) == IF kind = "quote" THEN 4 ELSE 24

\* Variant of CacheFile: one file name for every data kind.
CacheFileShared(kind) == "cache.json"

\* The file name of a data kind in the official source
\* (getHistoricalDaily with its default lookbackYears = 3).
CacheFile(kind) == IF kind = "quote" THEN "quote.json" ELSE "historical_3y.json"

Kinds == {"quote", "historical"}
FileNames == {CacheFile(k) : k \in Kinds}

\* Numbers with NaN.
NaN == <<"NaN", 0>>
Num(x) == <<"num", x>>

\* new Date(cached.fetchedAt).getTime(): NaN for a payload without fetchedAt
\* (new Date(undefined)) and for a string that is no date.
GetTime(f) == IF f.kind = "entry" THEN Num(f.stamp) ELSE NaN

\* t - x and a < b of JavaScript: NaN propagates, a comparison with NaN is false.
Minus(t, x) == IF x = NaN THEN NaN ELSE Num(t - x[2])
Less(a, b) == a # NaN /\ a[2] < b

\* The try block of TsxOptimizedFetcher.loadFromCache: mkdir or readFile
\* reject, JSON.parse throws, or the age of the payload's fetchedAt is tested.
TryLoad(f, t) ==
    IF f.kind \in {"missing", "unreadable", "nonJson"} THEN "throw"
    ELSE IF Less(Minus(t, GetTime(f)), maxAge) THEN "hit" ELSE "miss"

\* Variant of loadFromCache: no catch around the read.
loadFromCacheNoCatch(f, t) == TryLoad(f, t)

\* TsxOptimizedFetcher.loadFromCache: the catch turns every throw into null.
loadFromCache(f, t) ==
    IF TryLoad(f, t) = "throw" THEN "miss" ELSE TryLoad(f, t)

\* The try block of the official source's loadFromCache: mkdir or stat reject,
\* the age of the file's mtime is tested, then readFile and JSON.parse.
TryLoadOfficial(f, t, maxAgeHours) ==
    IF f.kind \in {"missing", "unreadable"} THEN "throw"
    ELSE IF t - f.stamp > maxAgeHours THEN "miss"
    ELSE IF f.kind = "nonJson" THEN "throw"
    ELSE "hit"

\* The official source's loadFromCache (loadTsxCache and loadFmpCache test the
\* age in the same way).
loadFromCacheOfficial(f, t, maxAgeHours) ==
    IF TryLoadOfficial(f, t, maxAgeHours) = "throw" THEN "miss"
    ELSE TryLoadOfficial(f, t, maxAgeHours)

\* What getQuote / getHistoricalDaily return from their catch.
OnFailure(kind) == IF kind = "quote" THEN "null" ELSE "empty"

\* A run uses one data source; its entries were left by earlier runs at hour 0
\* or are absent or damaged.
StoreInit ==
    /\ ProcIdle
    /\ RetryIdle
    /\ DelayIdle
    /\ KeyIdle
    /\ MetricIdle
    /\ ReportIdle
    /\ now = 0
    /\ lastCall = NoOp
    /\ source \in {"optimized", "official"}
    /\ IF source = "optimized"
       THEN /\ optFile \in [kind : {"missing", "unreadable", "nonJson", "noStamp",
                                    "badStamp", "entry"}, stamp : {0}]
            /\ files = <<>>
       ELSE /\ optFile = NoFile
            /\ files \in [FileNames -> [kind : {"missing", "unreadable", "nonJson",
                                                "entry"}, stamp : {0}]]

\* An hour passes. lastCall describes the call made at the present instant only.
Tick ==
    /\ now < MaxClock
    /\ now' = now + 1
    /\ lastCall' = NoOp
    /\ UNCHANGED <<source, optFile, files, keyVars, metricVars, reportVars, retryVars,
                   delayVars,
                   procVars, taskVars, fetchVars>>

\* One call of fetchOptimizedQuote, from loadFromCache to its return.
fetchOptimizedQuote ==
    /\ source = "optimized"
    /\ LET loaded == loadFromCache(optFile, now)
           call == [op |-> "optimized", file |-> optFile]
       IN  CASE loaded = "hit" ->
                  /\ lastCall' = call @@ [load |-> "hit", net |-> FALSE, ret |-> "data"]
                  /\ UNCHANGED optFile
             [] loaded = "miss" ->
                  \E kind \in RespKinds, writeOk \in BOOLEAN :
                      /\ kind # "ok" => writeOk
                      /\ lastCall' = call @@ [load |-> "miss", net |-> TRUE,
                                          ret |-> JobResult(kind, writeOk)]
                      /\ optFile' = IF kind = "ok" /\ writeOk
                                    THEN [kind |-> "entry", stamp |-> now]
                                    ELSE optFile
             [] OTHER ->
                  /\ lastCall' = call @@ [load |-> loaded, net |-> FALSE, ret |-> "raised"]
                  /\ UNCHANGED optFile
    /\ UNCHANGED <<now, source, files, keyVars, metricVars, reportVars, retryVars,
                   delayVars,
                   procVars, taskVars, fetchVars>>

\* One call of getQuote / getHistoricalDaily of the official source: the
\* cached value on a hit; otherwise the request, and on a validated result
\* saveToCache (best effort) under the kind's file name.
OfficialGet(kind) ==
    /\ source = "official"
    /\ LET fn == CacheFile(kind)
           loaded == loadFromCacheOfficial(files[fn], now, MaxAgeHours(kind))
           call == [op |-> kind, file |-> files[fn]]
       IN  IF loaded = "hit"
           THEN /\ lastCall' = call @@ [load |-> "hit", net |-> FALSE, ret |-> "data"]
                /\ UNCHANGED files
           ELSE \E ok \in BOOLEAN, writeOk \in BOOLEAN :
                    /\ ~ok => writeOk
                    /\ lastCall' = call @@ [load |-> loaded, net |-> TRUE,
                                        ret |-> IF ok THEN "data" ELSE OnFailure(kind)]
                    /\ files' = IF ok /\ writeOk
                                THEN [files EXCEPT ![fn] = [kind |-> "entry", stamp |-> now]]
                                ELSE files
    /\ UNCHANGED <<now, source, optFile, keyVars, metricVars, reportVars, retryVars,
                   delayVars,
                   procVars, taskVars, fetchVars>>

getQuote == OfficialGet("quote")

getHistoricalDaily == OfficialGet("historical")

StoreNext ==
    \/ Tick
    \/ fetchOptimizedQuote
    \/ getQuote
    \/ getHistoricalDaily

\* ======================================================== cache directories
\* Entity identifiers are strings, modelled as sequences of characters; a path
\* is a sequence of segments.
MaxIdLen == 2          \* longest identifier explored

\* One letter, '.', '_' and the path separator.
Alphabet == {"A", ".", "_", "/"}

\* The characters of Alphabet in the class [a-zA-Z0-9.-].
Allowed == {"A", "."}

Ids == UNION {[1..n -> Alphabet] : n \in 1..MaxIdLen}

\* symbol.replace(/[^a-zA-Z0-9.-]/g, '_')
Sanitize(sym) ==
    [k \in 1..Len(sym) |-> IF sym[k] \in Allowed THEN sym[k] ELSE "_"]

\* The segments of a string between its separators.
RECURSIVE Split(_)
Split(str) ==
    IF str = <<>> THEN << <<>> >>
    ELSE LET rest == Split(Tail(str))
         IN  IF Head(str) = "/" THEN << <<>> >> \o rest
             ELSE << <<Head(str)>> \o Head(rest) >> \o Tail(rest)

\* path.normalize of a relative path: empty and '.' segments are dropped, a
\* '..' removes the segment before it and stays when there is none.
RECURSIVE Normalize(_, _)
Normalize(done, segs) ==
    IF segs = <<>> THEN done
    ELSE LET h == Head(segs)
         IN  IF h = <<>> \/ h = <<".">> THEN Normalize(done, Tail(segs))
             ELSE IF h = <<".", ".">> /\ done # <<>> /\ done[Len(done)] # <<".", ".">>
                  THEN Normalize(SubSeq(done, 1, Len(done) - 1), Tail(segs))
                  ELSE Normalize(Append(done, h), Tail(segs))

\* path.join(base..., component, sub...)
Join(base, component, sub) == Normalize(<<>>, base \o Split(component) \o sub)

\* The string each store derives from the identifier and hands to path.join.
KeyComponent(store, sym) ==
    IF store = "optimized" THEN sym ELSE Sanitize(sym)

\* getCacheDir / getTsxCacheDir / getFmpCacheDir / TsxOptimizedFetcher.getCacheDir
CacheDir(store, sym) ==
    CASE store = "official" ->
            Join(<< <<"data">>, <<"cache">> >>, KeyComponent(store, sym), <<>>)
      [] store = "tsx" ->
            Join(<< <<"data">>, <<"cache">> >>, KeyComponent(store, sym), << <<"tsx">> >>)
      [] store = "fmp" ->
            Join(<< <<"data">>, <<"cache">> >>, KeyComponent(store, sym), << <<"fmp">> >>)
      [] store = "optimized" ->
            Join(<< <<"data">>, <<"cache">>, <<"optimized">> >>, KeyComponent(store, sym), <<>>)

Stores == {"official", "tsx", "fmp", "optimized"}

\* Two different identifiers, one store, nothing cached yet.
KeyInit ==
    /\ ProcIdle
    /\ RetryIdle
    /\ DelayIdle
    /\ StoreIdle
    /\ MetricIdle
    /\ ReportIdle
    /\ kstore \in Stores
    /\ idA \in Ids
    /\ idB \in Ids
    /\ idA # idB
    /\ disk = {}
    /\ got = NoGot

\* saveToCache(sym, file, data): the payload of sym is written into the
\* directory getCacheDir gives, replacing what the file held.
Put(sym) ==
    /\ disk' = {r \in disk : r.dir # CacheDir(kstore, sym)}
                 \cup {[dir |-> CacheDir(kstore, sym),
                        key |-> KeyComponent(kstore, sym),
                        owner |-> sym]}
    /\ got' = NoGot
    /\ UNCHANGED <<kstore, idA, idB, storeVars, metricVars, reportVars, retryVars,
                   delayVars,
                   procVars, taskVars, fetchVars>>

PutA == Put(idA)

PutB == Put(idB)

\* loadFromCache(idB, file): reads the file in the directory of idB.
GetB ==
    /\ got' = IF \E r \in disk : r.dir = CacheDir(kstore, idB)
              THEN [found |-> TRUE,
                    owner |-> (CHOOSE r \in disk : r.dir = CacheDir(kstore, idB)).owner]
              ELSE NoGot
    /\ UNCHANGED <<kstore, idA, idB, disk, storeVars, metricVars, reportVars, retryVars,
                   delayVars,
                   procVars, taskVars, fetchVars>>

KeyNext ==
    \/ PutA
    \/ PutB
    \/ GetB

\* ------------------------------------------------------- one large batch
MaxBurst == 6          \* largest batch handed to the fetch client at once

\* processSymbols with concurrency = N for N entities, none of them cached,
\* right after the tasks of its only batch were created: every task is in
\* loadFromCache.
BurstInit ==
    /\ \E n \in 1..MaxBurst :
          /\ symbols = [k \in 1..n |-> k]
          /\ batchSize = n
          /\ i = n
          /\ batches = <<[k \in 1..n |-> k]>>
          /\ progress = [k \in 1..n |->
                [completed |-> k - 1, total |-> n, failed |-> 0, currentSymbol |-> k]]
          /\ st = [e \in 1..n |-> "CACHE_CHECK"]
          /\ fetchResult = [e \in 1..n |-> "none"]
          /\ taskResult = [e \in 1..n |-> "none"]
          /\ cache = [e \in 1..n |-> "none"]
          /\ resp = [e \in 1..n |-> "none"]
          /\ attempts = [e \in 1..n |-> 0]
    /\ pc = "awaitAll"
    /\ batchIndex = 0
    /\ results = <<>>
    /\ successful = 0
    /\ failed = 0
    /\ summary = "none"
    /\ queue = <<>>
    /\ RetryIdle
    /\ DelayIdle
    /\ StoreIdle
    /\ KeyIdle
    /\ MetricIdle
    /\ ReportIdle

\* The fetch client under the batch: cache checks end in any order, the
\* limiter starts jobs, and every request gets a usable quote.
BurstNext ==
    \/ \E e \in Entities : CacheCheckDone(e)
    \/ LimiterStart
    \/ \E e \in Entities : ReceiveAs(e, "ok", TRUE)

\* ========================================================= financial metrics
MaxYear == 5           \* fiscal years run from 1 to MaxYear

\* computeEpsCagr5Y wants at least this many entries.
minYears == 5

\* EPS values explored: one non-positive, one positive.
EpsValues == {0, 1}

\* The null a metric function returns.
Null == <<"null", 0>>

\* interface EpsHistory { year: number; eps: number }
EpsEntries == [year : 1..MaxYear, eps : EpsValues]

\* The EPS sequence 5, -1, 3, 3, most recent year first, and the same entries
\* in another order.
LossExample ==
    << [year |-> 4, eps |-> 5], [year |-> 3, eps |-> -1],
       [year |-> 2, eps |-> 3], [year |-> 1, eps |-> 3] >>

LossShuffled ==
    << [year |-> 3, eps |-> -1], [year |-> 1, eps |-> 3],
       [year |-> 4, eps |-> 5], [year |-> 2, eps |-> 3] >>

\* The arrays a caller passes: every array of up to minYears entries, in every
\* order, years repeated or not.
Histories ==
    UNION {[1..n -> EpsEntries] : n \in 0..minYears} \cup {LossExample, LossShuffled}

Years(h) == {h[k].year : k \in 1..Len(h)}

\* Array.prototype.sort on an array of EpsHistory with the comparator
\* a.year - b.year (dir = 1) or b.year - a.year (dir = -1). The sort is
\* stable: entries of one year keep their order.
RECURSIVE StableSort(_, _, _)
StableSort(h, keys, dir) ==
    IF keys = {} THEN <<>>
    ELSE LET k == CHOOSE x \in keys : \A y \in keys : dir * x <= dir * y
             SameYear(r) == r.year = k
         IN  SelectSeq(h, SameYear) \o StableSort(h, keys \ {k}, dir)

sortAscending(h) == StableSort(h, Years(h), 1)

sortDescending(h) == StableSort(h, Years(h), -1)

\* The number Math.round((Math.pow(endEps / startEps, 1 / years) - 1) * 10000)
\* / 100, carried as its three operands: a root is not an integer.
Cagr(startEps, endEps, years) == <<"cagr", startEps, endEps, years>>

\* Variant of computeEpsCagr5Y: the endpoints are read without sorting.
computeEpsCagr5YUnsorted(epsHistory) ==
    IF Len(epsHistory) < minYears
    THEN [result |-> Null, array |-> epsHistory]
    ELSE LET sortedEps == epsHistory
             startEps == sortedEps[1].eps
             endEps == sortedEps[Len(sortedEps)].eps
             years == sortedEps[Len(sortedEps)].year - sortedEps[1].year
         IN  [result |-> IF startEps <= 0 \/ endEps <= 0 \/ years = 0
                         THEN Null
                         ELSE Cagr(startEps, endEps, years),
              array |-> sortedEps]

\* computeEpsCagr5Y(epsHistory): the value returned, and the array the caller
\* holds afterwards (sort works in place and sortedEps is the same array).
computeEpsCagr5Y(epsHistory) ==
    IF Len(epsHistory) < minYears
    THEN [result |-> Null, array |-> epsHistory]
    ELSE LET sortedEps == sortAscending(epsHistory)
             startEps == sortedEps[1].eps
             endEps == sortedEps[Len(sortedEps)].eps
             years == sortedEps[Len(sortedEps)].year - sortedEps[1].year
         IN  [result |-> IF startEps <= 0 \/ endEps <= 0 \/ years = 0
                         THEN Null
                         ELSE Cagr(startEps, endEps, years),
              array |-> sortedEps]

\* The for-of loop of computeYearsWithoutLoss: entries counted up to the
\* first one with eps <= 0.
RECURSIVE ConsecutiveYears(_)
ConsecutiveYears(s) ==
    IF s = <<>> THEN 0
    ELSE IF s[1].eps > 0 THEN 1 + ConsecutiveYears(Tail(s))
    ELSE 0

\* Variant of computeYearsWithoutLoss: the scan runs from the oldest year.
computeYearsWithoutLossAscending(epsHistory) ==
    IF Len(epsHistory) = 0
    THEN [result |-> Num(0), array |-> epsHistory]
    ELSE LET sortedEps == sortAscending(epsHistory)
         IN  [result |-> Num(ConsecutiveYears(sortedEps)), array |-> sortedEps]

\* computeYearsWithoutLoss(epsHistory): the value returned, and the array the
\* caller holds afterwards.
computeYearsWithoutLoss(epsHistory) ==
    IF Len(epsHistory) = 0
    THEN [result |-> Num(0), array |-> epsHistory]
    ELSE LET sortedEps == sortDescending(epsHistory)
         IN  [result |-> Num(ConsecutiveYears(sortedEps)), array |-> sortedEps]

\* A caller holds one EPS history and has called nothing yet.
EpsInit ==
    /\ ProcIdle
    /\ RetryIdle
    /\ DelayIdle
    /\ StoreIdle
    /\ KeyIdle
    /\ ReportIdle
    /\ hist \in Histories
    /\ mcall = NoCall

CallEpsCagr ==
    /\ LET r == computeEpsCagr5Y(hist)
       IN  /\ hist' = r.array
           /\ mcall' = [fn |-> "computeEpsCagr5Y", input |-> hist, result |-> r.result]
    /\ UNCHANGED <<storeVars, keyVars, reportVars, retryVars, delayVars,
                   procVars, taskVars, fetchVars>>

CallYearsWithoutLoss ==
    /\ LET r == computeYearsWithoutLoss(hist)
       IN  /\ hist' = r.array
           /\ mcall' = [fn |-> "computeYearsWithoutLoss", input |-> hist, result |-> r.result]
    /\ UNCHANGED <<storeVars, keyVars, reportVars, retryVars, delayVars,
                   procVars, taskVars, fetchVars>>

EpsNext ==
    \/ CallEpsCagr
    \/ CallYearsWithoutLoss

\* ------------------------------------------------------------ ratio metrics
MaxAmount == 3         \* amounts run from -1 to MaxAmount, with a few larger ones

\* The numbers passed as amounts: small integers around zero, the amounts of
\* the documented example (100, 20, 40), and NaN.
Amounts == {Num(x) : x \in (-1..MaxAmount) \cup {20, 40, 100}} \cup {NaN}

\* Tax rates, in percent.
TaxRates == {0, 25}

IsNum(v) == v[1] = "num"

\* v <= 0 on JavaScript numbers: false when v is NaN.
LeqZero(v) == IsNum(v) /\ v[2] <= 0

\* a - b on JavaScript numbers.
Sub(a, b) == IF IsNum(a) /\ IsNum(b) THEN Num(a[2] - b[2]) ELSE NaN

\* Math.round of the quotient num / den for den > 0: the nearest integer,
\* a half going up.
MathRound(num, den) == (2 * num + den) \div (2 * den)

\* Variant of RoundedQuotient: the quotient is cut off, not rounded.
RoundedQuotientFloor(scale, num, den) ==
    IF IsNum(num) /\ IsNum(den)
    THEN Num((scale * num[2]) \div den[2])
    ELSE NaN

\* Math.round(num / den * scale) / 100 for den > 0, carried in hundredths;
\* NaN when an operand is NaN.
RoundedQuotient(scale, num, den) ==
    IF IsNum(num) /\ IsNum(den)
    THEN Num(MathRound(scale * num[2], den[2]))
    ELSE NaN

\* computeNetDebtEbitdaRatio; the number returned is in hundredths.
computeNetDebtEbitdaRatio(totalDebt, cash, ebitda) ==
    IF LeqZero(ebitda) THEN Null
    ELSE LET netDebt == Sub(totalDebt, cash)
         IN  RoundedQuotient(100, netDebt, ebitda)

\* Variant of computeEbitMargin: only a revenue of exactly 0 is turned away.
computeEbitMarginZeroOnly(ebit, revenue) ==
    IF revenue = Num(0) THEN Null
    ELSE RoundedQuotient(100 * 100, ebit, revenue)

\* computeEbitMargin; the percentage returned is in hundredths.
computeEbitMargin(ebit, revenue) ==
    IF LeqZero(revenue) THEN Null
    ELSE RoundedQuotient(100 * 100, ebit, revenue)

\* computeNetMargin; the percentage returned is in hundredths.
computeNetMargin(netIncome, revenue) ==
    IF LeqZero(revenue) THEN Null
    ELSE RoundedQuotient(100 * 100, netIncome, revenue)

\* computeROIC with taxRate in percent: nopat = ebit * (1 - taxRate) is
\* ebit * (100 - taxRate) / 100. The percentage returned is in hundredths.
computeROIC(ebit, taxRate, totalAssets, cash, currentLiabilities) ==
    LET investedCapital == Sub(Sub(totalAssets, cash), currentLiabilities)
    IN  IF LeqZero(investedCapital) THEN Null
        ELSE LET nopat100 == IF IsNum(ebit) THEN Num(ebit[2] * (100 - taxRate)) ELSE NaN
             IN  RoundedQuotient(100, nopat100, investedCapital)

\* Days in the year of computeYearsSinceIPO: 365 * 24 * 60 * 60 * 1000 ms.
yearDays == 365

\* Instants, in days: getTime() of the dates explored.
Days == {0, 364, 365, 800}

\* Date strings: one per instant, and strings that are no date.
DateStrings == {<<"date", d>> : d \in Days} \cup {<<"garbage", 0>>, <<"empty", 0>>}

\* new Date(s).getTime(): NaN for a string that cannot be parsed (an Invalid
\* Date; the constructor does not throw).
DateGetTime(s) == IF s[1] = "date" THEN Num(s[2]) ELSE NaN

\* Math.floor((a - b) / yearDays) on JavaScript numbers.
FloorYears(a, b) ==
    IF IsNum(a) /\ IsNum(b) THEN Num((a[2] - b[2]) \div yearDays) ELSE NaN

\* computeYearsSinceIPO(ipoDate), with today the instant new Date() reads.
\* Nothing inside the try block throws, so the catch is never entered.
computeYearsSinceIPO(ipoDate, today) ==
    LET ipo == DateGetTime(ipoDate)
        nowTime == Num(today)
    IN  FloorYears(nowTime, ipo)

\* ------------------------------------------------- quote to metrics record
\* The five fields assessDataQuality looks at.
CriticalFields == {"roe", "roic", "epsCagr5Y", "yearsWithoutLoss", "netMargin"}

\* What a field of a Partial<FinancialMetrics> can hold.
FieldValues == {Null, Undefined, NaN, Num(0), Num(7)}

\* Variant of AvailableFields: only null is filtered out.
AvailableFieldsNullOnly(metrics) ==
    Cardinality({f \in CriticalFields : metrics[f] # Null})

\* criticalFields.filter(field => field !== null && field !== undefined).length
AvailableFields(metrics) ==
    Cardinality({f \in CriticalFields : metrics[f] # Null /\ metrics[f] # Undefined})

\* Values of the response: strings that parseFloat reads as n, and strings it
\* cannot read.
StrNum(n) == <<"strnum", n>>

StrText == <<"strtext", 0>>

\* returnOnEquity, returnOnAssets of the validated response:
\* z.union([z.number(), z.string()]).nullable().
RatioFieldValues == {Null, Num(0), Num(7), StrNum(0), StrNum(7), StrText}

\* eps of the validated response: z.number().nullable().
EpsFieldValues == {Null, Num(0), Num(7)}

ResponseQuotes ==
    [returnOnEquity : RatioFieldValues, returnOnAssets : RatioFieldValues,
     eps : EpsFieldValues]

\* parseFloat on the strings explored.
ParseFloat(v) == IF v[1] = "strnum" THEN Num(v[2]) ELSE NaN

\* TsxOptimizedFetcher.toNumber
toNumber(v) ==
    IF v[1] = "num" THEN v
    ELSE IF v[1] \in {"strnum", "strtext"}
         THEN (IF ParseFloat(v) = NaN THEN Undefined ELSE ParseFloat(v))
    ELSE Undefined

\* JavaScript truthiness of the values explored: null, undefined, NaN, 0 and
\* the empty string are falsy.
Truthy(v) ==
    /\ v \notin {Null, Undefined, NaN, Num(0)}

\* v || undefined
OrUndefined(v) == IF Truthy(v) THEN v ELSE Undefined

\* The OptimizedQuoteData built from the quote of a validated response at
\* instant t (the fields the metrics are made from, and fetchedAt).
BuildQuoteData(quote, t) ==
    [returnOnEquity |-> toNumber(quote.returnOnEquity),
     returnOnAssets |-> toNumber(quote.returnOnAssets),
     eps |-> OrUndefined(quote.eps),
     fetchedAt |-> t]

\* safeNumber(value)
safeNumber(v) ==
    IF v[1] = "num" THEN v
    ELSE IF v[1] \in {"strnum", "strtext"}
         THEN (IF ParseFloat(v) = NaN THEN Null ELSE ParseFloat(v))
    ELSE Null

\* convertToFinancialMetrics(symbol, quoteData), with today the instant
\* new Date() reads: the fields computed from the payload, the tier and
\* fetchedAt (ticker, company and sector are copied through and left out).
convertToFinancialMetrics(quoteData, today) ==
    LET roe == OrUndefined(safeNumber(quoteData.returnOnEquity))
        roic == OrUndefined(safeNumber(quoteData.returnOnAssets))
        metrics == [f \in CriticalFields |->
                       IF f = "roe" THEN roe ELSE IF f = "roic" THEN roic ELSE Undefined]
    IN  [roe |-> roe,
         roic |-> roic,
         dataQuality |-> assessDataQuality(AvailableFields(metrics)),
         fetchedAt |-> today]

\* The test of the collecting loop on the task result { success: true,
\* metrics }: result.success && 'metrics' in result && result.metrics. The
\* metrics object is truthy whatever its fields hold.
PushedToResults(metrics) == metrics \notin {Null, Undefined}

\* ------------------------------------------------------------ Sharpe ratio
\* Trading days in a year; computeSharpeRatio3Y wants 252 * 3 observations.
tradingDays == 252

\* Lengths of the price histories explored: around the threshold, and short.
HistoryLengths ==
    {0, 1, tradingDays, tradingDays * 3 - 1, tradingDays * 3}

\* The price of the k-th trading day: constant, or going up and down.
PriceOn(shape, k) == IF shape = "flat" THEN 10 ELSE 10 + (k % 3)

\* The date string of the entry at index k of an array of n entries: oldest
\* first, newest first, or strings that are no dates.
DateAt(order, n, k) ==
    IF order = "ascending" THEN <<"date", k>>
    ELSE IF order = "descending" THEN <<"date", n + 1 - k>>
    ELSE <<"garbage", 0>>

\* interface PriceHistory { date: string; price: number }, as arrays.
PriceHistories ==
    {[k \in 1..n |->
        [date |-> DateAt(order, n, k),
         price |-> PriceOn(shape, IF order = "descending" THEN n + 1 - k ELSE k)]] :
     n \in HistoryLengths, shape \in {"flat", "zigzag"},
     order \in {"ascending", "descending", "unparseable"}}

\* Annual risk-free rates, in percent (0.02 is the default).
RiskFreeRates == {0, 2}

\* new Date(entry.date).getTime() of every entry of the array.
DateTimes(h) == [j \in 1..Len(h) |-> DateGetTime(h[j].date)]

\* The comparator's a - b is negative; with an unparseable date the difference
\* is NaN, which sort takes as 0.
TimeBefore(a, b) == a[1] = "num" /\ b[1] = "num" /\ a[2] < b[2]

\* The place a stable sort gives the entry at index j: behind the entries
\* passed earlier that it is not before, and behind the later ones that are
\* before it.
DateRanks(time) ==
    [j \in DOMAIN time |->
        1 + Cardinality({k \in 1..(j - 1) : ~TimeBefore(time[j], time[k])})
          + Cardinality({k \in (j + 1)..Len(time) : TimeBefore(time[k], time[j])})]

\* The index of the entry that goes to each place.
EntryAt(ranks) == [p \in DOMAIN ranks |-> CHOOSE j \in DOMAIN ranks : ranks[j] = p]

Reordered(h, from) == [p \in DOMAIN from |-> h[from[p]]]

\* priceHistory.sort((a, b) => new Date(a.date).getTime() -
\* new Date(b.date).getTime())
SortByDate(h) == Reordered(h, EntryAt(DateRanks(DateTimes(h))))

\* The variance of the daily returns is 0: every daily return
\* (p[k] - p[k-1]) / p[k-1] equals the first one.
ZeroVolatility(p) ==
    \A k \in 2..Len(p) : p[k].price * p[1].price = p[2].price * p[k - 1].price

\* The number Math.round(sharpeRatio * 100) / 100, carried as the operands of
\* the annualized return (first and last price, span in days) and the
\* risk-free rate: roots are not integers. NaN when the dates are not dates.
Sharpe(sortedPrices, riskFreeRate) ==
    LET first == sortedPrices[1]
        last == sortedPrices[Len(sortedPrices)]
    IN  IF IsNum(DateGetTime(first.date)) /\ IsNum(DateGetTime(last.date))
        THEN <<"sharpe", first.price, last.price,
               DateGetTime(last.date)[2] - DateGetTime(first.date)[2], riskFreeRate>>
        ELSE NaN

\* computeSharpeRatio3Y past its length test, on the sorted array: null when
\* the volatility is 0.
SharpeOfSorted(sortedPrices, riskFreeRate) ==
    [result |-> IF ZeroVolatility(sortedPrices)
                THEN Null
                ELSE Sharpe(sortedPrices, riskFreeRate),
     array |-> sortedPrices]

\* Variant of computeSharpeRatio3Y: one year of observations is enough.
computeSharpeRatio3YOneYear(priceHistory, riskFreeRate) ==
    IF Len(priceHistory) < tradingDays
    THEN [result |-> Null, array |-> priceHistory]
    ELSE SharpeOfSorted(SortByDate(priceHistory), riskFreeRate)

\* computeSharpeRatio3Y(priceHistory, riskFreeRate): the value returned, and
\* the array the caller holds afterwards (sort works in place).
computeSharpeRatio3Y(priceHistory, riskFreeRate) ==
    IF Len(priceHistory) < tradingDays * 3
    THEN [result |-> Null, array |-> priceHistory]
    ELSE SharpeOfSorted(SortByDate(priceHistory), riskFreeRate)

\* No metric function has been called.
RatioInit ==
    /\ ProcIdle
    /\ RetryIdle
    /\ DelayIdle
    /\ StoreIdle
    /\ KeyIdle
    /\ MetricIdle
    /\ ReportIdle

\* A call of a metric function that takes no array: the call is recorded.
\* These functions keep nothing between calls, so one call is followed from
\* the state in which none has been made.
Called(fn, input, result) ==
    /\ mcall' = [fn |-> fn, input |-> input, result |-> result]
    /\ UNCHANGED <<hist, storeVars, keyVars, reportVars, retryVars, delayVars,
                   procVars, taskVars, fetchVars>>

CallNetDebtEbitda ==
    /\ mcall = NoCall
    /\ \E totalDebt \in Amounts, cash \in Amounts, ebitda \in Amounts :
           Called("computeNetDebtEbitdaRatio", <<totalDebt, cash, ebitda>>,
                  computeNetDebtEbitdaRatio(totalDebt, cash, ebitda))

CallEbitMargin ==
    /\ mcall = NoCall
    /\ \E ebit \in Amounts, revenue \in Amounts :
           Called("computeEbitMargin", <<ebit, revenue>>, computeEbitMargin(ebit, revenue))

CallNetMargin ==
    /\ mcall = NoCall
    /\ \E netIncome \in Amounts, revenue \in Amounts :
           Called("computeNetMargin", <<netIncome, revenue>>, computeNetMargin(netIncome, revenue))

CallROIC ==
    /\ mcall = NoCall
    /\ \E ebit \in Amounts, taxRate \in TaxRates, totalAssets \in Amounts,
          cash \in Amounts, currentLiabilities \in Amounts :
           Called("computeROIC", <<ebit, taxRate, totalAssets, cash, currentLiabilities>>,
                  computeROIC(ebit, taxRate, totalAssets, cash, currentLiabilities))

CallYearsSinceIPO ==
    /\ mcall = NoCall
    /\ \E ipoDate \in DateStrings, today \in Days :
           Called("computeYearsSinceIPO", <<ipoDate, today>>,
                  computeYearsSinceIPO(ipoDate, today))

\* assessDataQuality called on a record whose critical fields hold anything.
CallAssessDataQuality ==
    /\ mcall = NoCall
    /\ \E metrics \in [CriticalFields -> FieldValues] :
           Called("assessDataQuality", metrics,
                  assessDataQuality(AvailableFields(metrics)))

\* A validated response with a quote, received at instant fetched, is made
\* into the payload; the task converts the payload at instant today and its
\* result goes through the collecting loop.
CallConvert ==
    /\ mcall = NoCall
    /\ \E quote \in ResponseQuotes, fetched \in Days, today \in Days :
           LET quoteData == BuildQuoteData(quote, fetched)
               metrics == convertToFinancialMetrics(quoteData, today)
           IN  Called("convertToFinancialMetrics",
                      [quote |-> quote, quoteData |-> quoteData, today |-> today],
                      [metrics |-> metrics, pushed |-> PushedToResults(metrics)])

\* The call returns r.result and leaves the caller's array as r.array.
SharpeCalled(priceHistory, riskFreeRate, r) ==
    /\ hist' = r.array
    /\ mcall' = [fn |-> "computeSharpeRatio3Y",
                 input |-> <<priceHistory, riskFreeRate>>,
                 result |-> r.result]

\* computeSharpeRatio3Y called on a price history: the caller's array is
\* left as the function's sort left it.
CallSharpeRatio ==
    /\ mcall = NoCall
    /\ \E priceHistory \in PriceHistories, riskFreeRate \in RiskFreeRates :
           SharpeCalled(priceHistory, riskFreeRate,
                        computeSharpeRatio3Y(priceHistory, riskFreeRate))
    /\ UNCHANGED <<storeVars, keyVars, reportVars, retryVars, delayVars,
                   procVars, taskVars, fetchVars>>

RatioNext ==
    \/ CallSharpeRatio
    \/ CallAssessDataQuality
    \/ CallConvert
    \/ CallNetDebtEbitda
    \/ CallEbitMargin
    \/ CallNetMargin
    \/ CallROIC
    \/ CallYearsSinceIPO

\* ========================================================= console progress
MaxSeconds == 12       \* the clock is followed for this many seconds
MaxReports == 3        \* progress callbacks followed

\* ConsoleProgressReporter.updateInterval, 5000 ms, in seconds.
updateInterval == 5

\* ConsoleProgressReporter.lastUpdate of a new instance.
lastUpdateInitial == 0

\* Date.now() when the run starts: an instant of today, far more than
\* updateInterval from the epoch.
StartWall == 2 * updateInterval

\* ConsoleProgressReporter.report on an instance whose lastUpdate is given,
\* at instant t: whether a line is printed, and lastUpdate afterwards.
report(lastUpdate, t) ==
    IF t - lastUpdate < updateInterval
    THEN [printed |-> FALSE, lastUpdate |-> lastUpdate]
    ELSE [printed |-> TRUE, lastUpdate |-> t]

\* The CLI is about to call processSymbols.
ReportInit ==
    /\ ProcIdle
    /\ RetryIdle
    /\ DelayIdle
    /\ StoreIdle
    /\ KeyIdle
    /\ MetricIdle
    /\ wall = StartWall
    /\ reports = 0
    /\ lines = <<>>

\* A second goes by.
WallTick ==
    /\ wall < StartWall + MaxSeconds
    /\ wall' = wall + 1
    /\ UNCHANGED <<reports, lines, storeVars, keyVars, metricVars, retryVars,
                   delayVars, procVars, taskVars, fetchVars>>

\* The progressCallback the CLI gives to DataProcessor: every call makes a
\* new ConsoleProgressReporter and calls its report.
ProgressCallback ==
    /\ reports < MaxReports
    /\ reports' = reports + 1
    /\ lines' = IF report(lastUpdateInitial, wall).printed
                THEN Append(lines, wall)
                ELSE lines
    /\ UNCHANGED <<wall, storeVars, keyVars, metricVars, retryVars,
                   delayVars, procVars, taskVars, fetchVars>>

ReportNext ==
    \/ WallTick
    \/ ProgressCallback

\* ----------------------------------------------------------- specifications
Init ==
    /\ ProcInit
    /\ RetryIdle
    /\ DelayIdle
    /\ StoreIdle
    /\ KeyIdle
    /\ MetricIdle
    /\ ReportIdle

Next ==
    \/ CreateBatchesStep
    \/ CreateBatchesReturn
    \/ DispatchBatch
    \/ \E e \in Entities : CacheCheckDone(e)
    \/ LimiterStart
    \/ \E e \in Entities : Receive(e)
    \/ \E e \in Entities : Settle(e)
    \/ CollectBatch
    \/ Return

\* A run of processSymbols.
Spec == Init /\ [][Next]_vars

\* Every enabled step is eventually taken: the event loop runs every ready
\* continuation and every network call ends.
FairSpec == Spec /\ WF_vars(Next)

\* One call of withRetry.
RetrySpec == RetryInit /\ [][RetryNext]_vars

\* calculateDelay over successive attempts.
DelaySpec == DelayInit /\ [][DelayNext]_vars

\* The file caches of one entity over MaxClock hours.
StoreSpec == StoreInit /\ [][StoreNext]_vars

\* Puts and gets of two entities in one store.
KeySpec == KeyInit /\ [][KeyNext]_vars

\* The fetch client under one batch of up to MaxBurst entities.
BurstSpec == BurstInit /\ [][BurstNext]_vars

\* The EPS metrics called on one shared history.
EpsSpec == EpsInit /\ [][EpsNext]_vars

\* Calls of the ratio metrics and of computeYearsSinceIPO.
RatioSpec == RatioInit /\ [][RatioNext]_vars

\* The progress lines of a run driven by the CLI.
ReportSpec == ReportInit /\ [][ReportNext]_vars

\* ================================================================== claims
Threw == {e \in Entities : fetchResult[e] = "raised"}
WithData == {e \in Entities : fetchResult[e] = "data"}

C2_BatchBarrier ==
    \A b1 \in 1..Len(batches) : \A b2 \in 1..Len(batches) :
        b1 < b2 =>
            \A k1 \in 1..Len(batches[b1]) : \A k2 \in 1..Len(batches[b2]) :
                st[batches[b2][k2]] # "PENDING" => st[batches[b1][k1]] = "SETTLED"

\* The second batch is in flight after a first batch of two entities, one of
\* which threw and one of which ended without data.
C2_Witness ==
    /\ Len(batches) = 2
    /\ Len(batches[1]) = 2
    /\ st[3] = "FETCHING"
    /\ fetchResult[1] = "raised"
    /\ fetchResult[2] = "null"

\* C3: a run always completes: processSymbols eventually returns, for every
\* entity list and every configured concurrency, when every step that can be
\* taken is eventually taken. (It fails where createBatches never ends: the
\* run is then for ever at pc = "createBatches" with i < Len(symbols).)
C3_RunCompletes == <>(pc = "returned")

\* C4: a transient failure is retried: an entity whose network call failed
\* with a transport or non-2xx HTTP error is recorded as failed only after
\* maxAttempts network calls.
C4_TransientRetried ==
    \A e \in Entities :
        (taskResult[e] = "failure" /\ resp[e] \in TransientKinds)
            => attempts[e] = DEFAULT_maxAttempts

\* C5: a transport error or non-2xx response makes fetchOptimizedQuote raise
\* to its caller; it does not become a null result.
C5_TransientRaises ==
    \A e \in Entities :
        resp[e] \in TransientKinds => fetchResult[e] = "raised"

\* C6: on a 2xx response that is malformed, empty, carries GraphQL errors or
\* does not match the schema, fetchOptimizedQuote returns null and does not raise.
C6_MalformedGivesNull ==
    \A e \in Entities :
        resp[e] \in MalformedKinds => fetchResult[e] = "null"

\* Two calls returned on a schema mismatch and on a null quote.
C6_Witness ==
    \E e1 \in Entities : \E e2 \in Entities :
        /\ resp[e1] = "schema" /\ fetchResult[e1] = "null" /\ st[e1] = "SETTLED"
        /\ resp[e2] = "nullQuote" /\ fetchResult[e2] = "null"

\* The first invocation on which fn resolves, 0 when there is none.
FirstOk ==
    IF \E k \in 1..Len(plan) : plan[k] = "ok"
    THEN CHOOSE k \in 1..Len(plan) :
            plan[k] = "ok" /\ \A j \in 1..(k - 1) : plan[j] # "ok"
    ELSE 0

\* C7: when fn fails on invocations 1..k-1 and resolves on invocation
\* k <= maxAttempts, withRetry does not raise, never invokes fn more than k
\* times, and returns the value of invocation k after exactly k invocations.
C7_SuccessAfterK ==
    (FirstOk >= 1 /\ FirstOk <= maxAttempts)
        => /\ fnCalls <= FirstOk
           /\ rpc # "thrown"
           /\ rpc = "returned" => (fnCalls = FirstOk /\ value = [call |-> FirstOk])
           /\ rpc # "returned" => ENABLED RetryNext

\* fn failed twice and resolved on the third invocation.
C7_Witness ==
    /\ rpc = "returned"
    /\ FirstOk = 3
    /\ fnCalls = 3
    /\ value = [call |-> 3]

\* C8: for every maxAttempts, when fn always fails, withRetry ends by raising
\* RetryError after exactly maxAttempts invocations, with attempts =
\* maxAttempts and lastError the error of the last invocation.
C8_ExhaustionRaisesRetryError ==
    (rpc \in {"returned", "thrown"} /\ \A k \in 1..maxAttempts : plan[k] # "ok")
        => /\ rpc = "thrown"
           /\ fnCalls = maxAttempts
           /\ thrown.name = "RetryError"
           /\ thrown.attempts = maxAttempts
           /\ thrown.lastError = <<plan[maxAttempts], maxAttempts>>

\* C9: fn is never invoked again after it failed with a schema-validation error.
C9_ValidationNotRetried ==
    \A k \in 1..(fnCalls - 1) : plan[k] # "validation"

\* C10: with d = min(baseDelay * 2^(k-1), maxDelay), calculateDelay gives d
\* without jitter and a value in [0.75 d, 1.25 d] with jitter; it is never
\* negative, and without jitter it never exceeds maxDelay and does not
\* decrease from one attempt to the next.
C10_BackoffDelay ==
    dAttempt >= 1 =>
        LET exp == baseDelay * 2 ^ (dAttempt - 1)
            d == IF exp <= maxDelay THEN exp ELSE maxDelay
        IN  /\ delay >= 0
            /\ ~jitter => /\ delay = d * DelayScale
                          /\ delay <= maxDelay * DelayScale
                          /\ dAttempt >= 2 => prevDelay <= delay
            /\ jitter => /\ 4 * delay >= 3 * d * DelayScale
                         /\ 4 * delay <= 5 * d * DelayScale

\* The delay of the third attempt is clamped to maxDelay, and a jittered
\* delay differs from d.
C10_Witness ==
    /\ dAttempt = 3
    /\ baseDelay = 2
    /\ maxDelay = 5
    /\ jitter
    /\ delay # 5 * DelayScale
    /\ delay > 0

\* Entities whose cache entry was valid when the run started and has not been
\* touched since: the entry is written only by a job that got a response.
ValidAtStart == {e \in Entities : cache[e] = "valid" /\ resp[e] = "none"}

\* C12: resumability. An entity whose cache entry is valid when the run starts
\* is never handed to the limiter and no network call is issued for it; when
\* its fetch returns, it returns the cached payload and the entity succeeds.
\* Every network call is for an entity without a valid entry.
C12_Resumability ==
    \A e \in ValidAtStart :
        /\ attempts[e] = 0
        /\ st[e] \notin {"QUEUED", "FETCHING"}
        /\ e \notin SeqToSet(queue)
        /\ (st[e] \in {"RETURNED", "SETTLED"} /\ e \notin Threw)
              => fetchResult[e] = "data"
        /\ (st[e] = "SETTLED" /\ e \notin Threw) => taskResult[e] = "success"

C12_Witness ==
    /\ pc = "returned"
    /\ \E e \in ValidAtStart : e \in SeqToSet(results)
    /\ \E f \in Entities : attempts[f] = 1

\* Entities whose validated payload could not be written to the cache.
WriteFailed == {e \in Entities : resp[e] = "ok" /\ cache[e] # "valid"}

\* C13: best-effort cache writes. When the write after a usable response
\* fails, fetchOptimizedQuote still returns the payload (nothing is raised),
\* the entity's task succeeds and its record is in the results.
C13_BestEffortWrites ==
    \A e \in WriteFailed :
        /\ fetchResult[e] = "data"
        /\ st[e] = "SETTLED" => taskResult[e] = "success"
        /\ pc = "returned" => e \in SeqToSet(results)

C13_Witness ==
    /\ pc = "returned"
    /\ failed = 0
    /\ \E e \in WriteFailed : e \in SeqToSet(results)

PhaseOf(e) ==
    CASE st[e] \in {"PENDING", "CACHE_CHECK"} -> "PENDING"
      [] st[e] \in {"QUEUED", "FETCHING"} -> "FETCHING"
      [] st[e] = "REJECTED" -> "FAILED"
      [] st[e] = "RETURNED" ->
            IF fetchResult[e] # "data" THEN "FAILED"
            ELSE IF resp[e] = "none" THEN "CACHE_HIT" ELSE "FETCHED"
      [] st[e] = "SETTLED" ->
            IF taskResult[e] = "success" THEN "COMPUTED" ELSE "SKIPPED"

Rank(ph) ==
    CASE ph = "PENDING" -> 0
      [] ph \in {"CACHE_HIT", "FETCHING"} -> 1
      [] ph \in {"FETCHED", "FAILED"} -> 2
      [] ph \in {"COMPUTED", "SKIPPED"} -> 3

\* No entity moves to an earlier state of the machine.
ForwardOnly ==
    [][\A e \in Entities : Rank(PhaseOf(e))' >= Rank(PhaseOf(e))]_vars

\* No entity is fetched a second time.
FetchedAtMostOnce == [](\A e \in Entities : attempts[e] <= 1)

\* C19: per-entity state machine. Every entity moves only forward through
\* PENDING, CACHE_HIT or FETCHING, FETCHED or FAILED, COMPUTED or SKIPPED, is
\* fetched at most once, and ends in a terminal state (COMPUTED or SKIPPED).
\* With batchSize = 0 the run stays in createBatches, where no task exists
\* yet: the entities are PENDING for ever.
C19_StateMachine ==
    /\ ForwardOnly
    /\ FetchedAtMostOnce
    /\ <>(\A e \in Entities : PhaseOf(e) \in {"COMPUTED", "SKIPPED"})

\* The entities of the batches whose results have been collected.
Collected == UNION {SeqToSet(batches[k]) : k \in 1..batchIndex}

\* C20: failed entities carry no metrics. Of the entities collected so far,
\* the results hold exactly one record for each one that had a payload (cache
\* hit or usable response) and none for the others; each entity whose fetch
\* returned null or threw adds exactly one to the failure count.
C20_FailedCarryNoMetrics ==
    /\ SeqToSet(results) = {e \in Collected : fetchResult[e] = "data"}
    /\ Len(results) = Cardinality(SeqToSet(results))
    /\ failed = Cardinality({e \in Collected : fetchResult[e] \in {"null", "raised"}})

C20_Witness ==
    /\ pc = "returned"
    /\ Len(results) = 1
    /\ failed = 2
    /\ \E e \in Entities : fetchResult[e] = "null"
    /\ \E e \in Entities : fetchResult[e] = "raised"

\* The TTL of the entry a call reads, in hours.
TTL(op) == IF op = "optimized" THEN 24 ELSE IF op = "quote" THEN 4 ELSE 24

\* The entry is a readable payload with a timestamp.
Readable(f) == f.kind = "entry"

\* Age in hours of the entry the present call read.
CallAge == now - lastCall.file.stamp

\* C11: cache validity. In every store and for every data kind, a get is a
\* hit exactly when the entry is readable and its age is strictly less than
\* the kind's TTL; at an age equal to the TTL or greater it is a miss.
C11_CacheValidity ==
    lastCall.op # "none" =>
        (lastCall.load = "hit" <=>
            (Readable(lastCall.file) /\ CallAge < TTL(lastCall.op)))

\* Reading the entry fails: no file, unreadable directory or file, truncated
\* or non-JSON content, no timestamp or one that is no date.
ReadFails(f) ==
    f.kind \in {"missing", "unreadable", "nonJson", "noStamp", "badStamp"}

\* C14: cache read errors are misses. When reading the entry fails in any
\* way, the get is a miss, the call goes on to the network, and what the
\* caller gets is the fetched payload or the source's failure value, never a
\* raised error.
C14_ReadErrorsAreMisses ==
    (lastCall.op # "none" /\ ReadFails(lastCall.file)) =>
        /\ lastCall.load = "miss"
        /\ lastCall.net
        /\ lastCall.ret \in {"data", "null", "empty"}

C14_Witness ==
    /\ lastCall.op = "optimized"
    /\ lastCall.file.kind = "badStamp"
    /\ lastCall.net
    /\ lastCall.ret = "data"
    /\ optFile = [kind |-> "entry", stamp |-> now]

\* Whether a get of the kind would be a hit now.
WouldHit(kind) ==
    loadFromCacheOfficial(files[CacheFile(kind)], now, MaxAgeHours(kind)) = "hit"

\* A call for one kind leaves the other kind's entry as it is.
C15_Frame ==
    [][/\ getQuote =>
            /\ files'[CacheFile("historical")] = files[CacheFile("historical")]
            /\ WouldHit("historical")' = WouldHit("historical")
       /\ getHistoricalDaily =>
            /\ files'[CacheFile("quote")] = files[CacheFile("quote")]
            /\ WouldHit("quote")' = WouldHit("quote")]_vars

\* A readable entry is judged against the TTL of its own kind.
C15_OwnTTL ==
    [](/\ (lastCall.op = "quote" /\ Readable(lastCall.file)) =>
              /\ CallAge < 4 => lastCall.load = "hit"
              /\ CallAge > 4 => lastCall.load = "miss"
       /\ (lastCall.op = "historical" /\ Readable(lastCall.file)) =>
              /\ CallAge < 24 => lastCall.load = "hit"
              /\ CallAge > 24 => lastCall.load = "miss")

\* C15: per-kind independence. For one entity, a getQuote call (which writes
\* or refreshes the quote entry once it has expired) changes neither the
\* historical entry nor whether it is a hit, and likewise the other way
\* round; the quote entry is judged against 4 h, the historical entry
\* against 24 h.
C15_PerKindIndependence == C15_Frame /\ C15_OwnTTL

C15_Witness ==
    /\ source = "official"
    /\ now = 23
    /\ lastCall.op = "historical"
    /\ lastCall.load = "hit"
    /\ files[CacheFile("historical")] = [kind |-> "entry", stamp |-> 0]
    /\ files[CacheFile("quote")] = [kind |-> "entry", stamp |-> 20]

\* C16: per-entity partition, in the stores that sanitize the identifier
\* (official, tsx, fmp). For two different identifiers A and B, the entry a
\* put for A wrote is never in the directory a get for B reads, and what a
\* get for B finds is never the payload of A.
C16_EntityPartition ==
    kstore # "optimized" =>
        /\ \A r \in disk : r.owner = idA => r.dir # CacheDir(kstore, idB)
        /\ got.found => got.owner = idB

\* The characters a sanitized path component may hold.
SafeChars == Allowed \cup {"_"}

\* C17: sanitized cache keys. In every store, the optimized fetcher's
\* included, the path component made from the identifier of any entry
\* written holds only letters, digits, '.', '-' and '_', hence no path
\* separator.
C17_SanitizedKeys ==
    \A r \in disk : \A k \in 1..Len(r.key) : r.key[k] \in SafeChars

\* C21: summary accounting. When processSymbols returns for N entities, the
\* summary has total = N and successful + failed = N, the results hold
\* exactly summary.successful records, and the three data-quality counts add
\* up to summary.successful; after each batch, successful + failed is the
\* number of entities of the batches finished so far.
C21_SummaryAccounting ==
    /\ pc \in {"forBatch", "awaitAll", "returned"} =>
          successful + failed = Cardinality(Collected)
    /\ pc = "returned" =>
          /\ summary.total = Len(symbols)
          /\ summary.successful + summary.failed = Len(symbols)
          /\ Len(results) = summary.successful
          /\ summary.dataQuality["complete"] + summary.dataQuality["partial"]
                + summary.dataQuality["minimal"] = summary.successful

C21_Witness ==
    /\ pc = "returned"
    /\ Len(batches) = 2
    /\ summary.successful = 2
    /\ summary.failed = 1
    /\ summary.dataQuality["partial"] = 1
    /\ summary.dataQuality["minimal"] = 1

\* The entity's job has been handed to the limiter.
Handed(e) == st[e] \in {"QUEUED", "FETCHING"} \/ attempts[e] >= 1

\* The entity is still in its cache check, which will be a miss.
MissPending(e) == st[e] = "CACHE_CHECK" /\ ~CacheHit(cache[e])

\* C23: dispatch order. Within a batch, for entities at positions i < j that
\* both need a network call, the job of the entity at i is handed to the
\* limiter (and so started) before the job of the entity at j, whatever the
\* order in which the cache checks end.
C23_DispatchOrder ==
    pc = "awaitAll" =>
        \A x, y \in 1..Len(CurrentBatch) :
            (x < y /\ Handed(CurrentBatch[y])) => ~MissPending(CurrentBatch[x])

\* C24: progress counts. In every report of the tasks of the batch under
\* way, completed is the number of entities settled when the report was made
\* and failed the number of entities failed by then, and completed does not
\* exceed total. The reports of a batch are made while its tasks are
\* created, when the settled entities are exactly those of the batches
\* collected before.
C24_ProgressCounts ==
    pc = "awaitAll" =>
        \A k \in 1..Len(progress) :
            /\ progress[k].completed = Cardinality(Collected)
            /\ progress[k].failed =
                  Cardinality({e \in Collected : taskResult[e] = "failure"})
            /\ progress[k].completed <= progress[k].total

\* C22: concurrency cap. At every moment the number of network calls in
\* flight is at most maxConcurrent (4), also when the batch is larger than
\* that; a job that has been handed to the limiter and is not running is in
\* the limiter's queue.
C22_ConcurrencyCap ==
    /\ running <= maxConcurrent
    /\ \A e \in Entities : st[e] = "QUEUED" <=> e \in SeqToSet(queue)

C22_Witness ==
    /\ batchSize > maxConcurrent
    /\ running = maxConcurrent
    /\ Len(queue) = batchSize - maxConcurrent

\* C25: computeEpsCagr5Y returns null for every EPS history with fewer than 5
\* distinct years, histories of 5 or more entries with repeated years
\* included.
C25_DistinctYears ==
    (mcall.fn = "computeEpsCagr5Y" /\ Cardinality(Years(mcall.input)) < minYears)
        => mcall.result = Null

EarliestYear(h) == CHOOSE x \in Years(h) : \A y \in Years(h) : x <= y

LatestYear(h) == CHOOSE x \in Years(h) : \A y \in Years(h) : x >= y

\* No entry of year y has a strictly positive EPS.
NotPositiveIn(h, y) == \A k \in 1..Len(h) : h[k].year = y => h[k].eps <= 0

EpsOf(h, y) == {h[k].eps : k \in {j \in 1..Len(h) : h[j].year = y}}

\* C26: whatever the order of the array passed, computeEpsCagr5Y returns null
\* when the EPS of the earliest year or of the latest year is not strictly
\* positive; a number it returns is computed from an EPS of the earliest year,
\* an EPS of the latest year and the span latest year minus earliest year.
C26_EndpointsAfterSort ==
    (mcall.fn = "computeEpsCagr5Y" /\ mcall.input # <<>>) =>
        LET h == mcall.input
            lo == EarliestYear(h)
            hi == LatestYear(h)
        IN  /\ (NotPositiveIn(h, lo) \/ NotPositiveIn(h, hi)) => mcall.result = Null
            /\ mcall.result # Null =>
                  /\ mcall.result[1] = "cagr"
                  /\ mcall.result[2] \in EpsOf(h, lo)
                  /\ mcall.result[3] \in EpsOf(h, hi)
                  /\ mcall.result[4] = hi - lo

\* A history of minYears entries passed out of order, whose first and last
\* entries are profitable but whose earliest year is not: null is returned.
C26_Witness ==
    /\ mcall.fn = "computeEpsCagr5Y"
    /\ Len(mcall.input) >= minYears
    /\ mcall.input # sortAscending(mcall.input)
    /\ mcall.input[1].eps > 0
    /\ mcall.input[Len(mcall.input)].eps > 0
    /\ mcall.input[1].year # mcall.input[Len(mcall.input)].year
    /\ NotPositiveIn(mcall.input, EarliestYear(mcall.input))
    /\ mcall.result = Null

\* One entry per year.
DistinctYears(h) == Cardinality(Years(h)) = Len(h)

\* The years of h from which on, up to the most recent one, every EPS is > 0.
ProfitableRun(h) ==
    {y \in Years(h) : \A k \in 1..Len(h) : h[k].year >= y => h[k].eps > 0}

Abs(x) == IF x < 0 THEN -x ELSE x

\* r hundredths is num / den rounded to 2 decimals: no further from the
\* quotient than half a hundredth.
IsRounded2(r, num, den) == 2 * Abs(100 * num - r * den) <= den

\* C28: for every ebitda > 0 computeNetDebtEbitdaRatio returns
\* (totalDebt - cash) / ebitda rounded to 2 decimals, a negative number when
\* cash exceeds debt; totalDebt = 100, cash = 20, ebitda = 40 gives 2.0.
C28_NetDebtEbitda ==
    mcall.fn = "computeNetDebtEbitdaRatio" =>
        LET totalDebt == mcall.input[1]
            cash == mcall.input[2]
            ebitda == mcall.input[3]
        IN  /\ (IsNum(totalDebt) /\ IsNum(cash) /\ IsNum(ebitda) /\ ebitda[2] > 0) =>
                  /\ IsNum(mcall.result)
                  /\ IsRounded2(mcall.result[2], totalDebt[2] - cash[2], ebitda[2])
                  /\ (cash[2] > totalDebt[2] /\ cash[2] - totalDebt[2] >= ebitda[2])
                        => mcall.result[2] < 0
            /\ mcall.input = <<Num(100), Num(20), Num(40)>> => mcall.result = Num(200)

\* Cash exceeds debt and the quotient has more than 2 decimals: a negative,
\* rounded number is returned.
C28_Witness ==
    /\ mcall.fn = "computeNetDebtEbitdaRatio"
    /\ IsNum(mcall.input[1]) /\ IsNum(mcall.input[2]) /\ IsNum(mcall.input[3])
    /\ mcall.input[3][2] > 0
    /\ mcall.input[2][2] > mcall.input[1][2]
    /\ (100 * (mcall.input[1][2] - mcall.input[2][2])) % mcall.input[3][2] # 0
    /\ IsNum(mcall.result)
    /\ mcall.result[2] < 0

\* The denominator each ratio function tests.
Denominator(c) ==
    IF c.fn = "computeNetDebtEbitdaRatio" THEN c.input[3]
    ELSE IF c.fn = "computeROIC" THEN Sub(Sub(c.input[3], c.input[4]), c.input[5])
    ELSE c.input[2]

RatioFunctions ==
    {"computeNetDebtEbitdaRatio", "computeEbitMargin", "computeNetMargin", "computeROIC"}

\* C29: computeNetDebtEbitdaRatio returns null exactly when ebitda <= 0,
\* computeEbitMargin and computeNetMargin exactly when revenue <= 0, computeROIC
\* exactly when totalAssets - cash - currentLiabilities <= 0; for every numeric
\* input, NaN included, the call returns a value (null, a number or NaN).
C29_NonPositiveDenominators ==
    mcall.fn \in RatioFunctions =>
        /\ mcall.result = Null <=> LeqZero(Denominator(mcall))
        /\ mcall.result[1] \in {"null", "num", "NaN"}

\* A margin asked for a negative revenue is null.
C29_Witness ==
    /\ mcall.fn = "computeEbitMargin"
    /\ IsNum(mcall.input[2])
    /\ mcall.input[2][2] < 0
    /\ mcall.result = Null

\* C30: computeYearsSinceIPO returns null for every date string that cannot be
\* parsed, and a number only for a parseable one.
C30_UnparseableIsNull ==
    mcall.fn = "computeYearsSinceIPO" =>
        /\ mcall.input[1][1] # "date" => mcall.result = Null
        /\ IsNum(mcall.result) => mcall.input[1][1] = "date"

\* The position of entity e in the input array.
PositionIn(s, e) == CHOOSE k \in 1..Len(s) : s[k] = e

\* C36: result order. The results array lists the successful entities in the
\* relative order of the input array, whatever the order in which the fetches
\* of a batch settled.
C36_ResultOrder ==
    \A p, q \in 1..Len(results) :
        p < q => PositionIn(symbols, results[p]) < PositionIn(symbols, results[q])

\* The run has returned two records of one batch of which the first needed a
\* network call and the second came from the cache, so that their fetches
\* ended at unrelated times.
C36_Witness ==
    /\ pc = "returned"
    /\ Len(results) >= 2
    /\ \E b \in 1..Len(batches) :
          {results[1], results[2]} \subseteq SeqToSet(batches[b])
    /\ attempts[results[1]] = 1
    /\ attempts[results[2]] = 0

RECURSIVE Flatten(_)
Flatten(bs) == IF bs = <<>> THEN <<>> ELSE Head(bs) \o Flatten(Tail(bs))

\* ceil(n / b) for b >= 1.
CeilDiv(n, b) == (n + b - 1) \div b

\* C38: createBatches partitions its input. For a batch size b >= 1, once
\* createBatches has returned, the batches concatenated in order are the input
\* array, every batch is non-empty, every batch but the last has exactly b
\* items, and there are ceil(N / b) batches (none for an empty input).
C38_BatchesPartition ==
    (pc # "createBatches" /\ batchSize >= 1) =>
        /\ Flatten(batches) = symbols
        /\ \A k \in 1..Len(batches) : Len(batches[k]) >= 1
        /\ \A k \in 1..(Len(batches) - 1) : Len(batches[k]) = batchSize
        /\ Len(batches) = CeilDiv(Len(symbols), batchSize)

\* createBatches has returned batches whose last one is short.
C38_Witness ==
    /\ pc # "createBatches"
    /\ batchSize >= 2
    /\ Len(batches) >= 2
    /\ Len(batches[Len(batches)]) < batchSize

\* The network call of e ended without a payload.
FetchFailed(e) == resp[e] \notin {"none", "ok"}

\* The step in which a call ends without a payload leaves every cache entry
\* as it was.
C37_Frame ==
    [][\A e \in Entities :
          (~FetchFailed(e) /\ FetchFailed(e)') => cache' = cache]_vars

\* After such a call the entity has no entry a later run would take as a hit.
C37_StillMiss ==
    [](\A e \in Entities : FetchFailed(e) => ~CacheHit(cache[e]))

\* C37: no caching of failures. When a fetch ends without a payload (HTTP
\* error, transport error, validation failure, GraphQL errors, null quote), the
\* entity's cache entry is neither created nor modified: an absent entry stays
\* absent, a stale one stays as it was, and the next run finds a miss and
\* issues the network call again.
C37_NoCachingOfFailures == C37_Frame /\ C37_StillMiss

\* An entity with a stale entry whose call failed: the entry is still the
\* stale one.
C37_Witness ==
    \E e \in Entities :
        /\ FetchFailed(e)
        /\ st[e] = "SETTLED"
        /\ cache[e] = "expired"

\* C34: metric functions do not modify their arguments. After
\* computeEpsCagr5Y or computeYearsWithoutLoss returns, the caller's history
\* array holds the elements it held before the call, in the same order.
C34_ArgumentsUnchanged ==
    mcall.fn \in {"computeEpsCagr5Y", "computeYearsWithoutLoss"} =>
        hist = mcall.input

\* The critical fields of a record that hold a value.
Present(metrics) ==
    {f \in CriticalFields : metrics[f] \notin {Null, Undefined}}

\* C33: data-quality tier. assessDataQuality counts the critical fields that
\* are neither null nor undefined and returns complete for a count >= 4,
\* partial for 2 or 3, minimal for 0 or 1; a converted record goes into the
\* results whatever its tier.
C33_DataQualityTier ==
    /\ mcall.fn = "assessDataQuality" =>
          LET n == Cardinality(Present(mcall.input))
          IN  /\ n >= 4 => mcall.result = "complete"
              /\ n \in {2, 3} => mcall.result = "partial"
              /\ n \in {0, 1} => mcall.result = "minimal"
    /\ mcall.fn = "convertToFinancialMetrics" =>
          /\ mcall.result.metrics.dataQuality \in Tiers
          /\ mcall.result.pushed

\* Four of the five fields hold a value, NaN and 0 among them, and one is
\* undefined: complete.
C33_Witness ==
    /\ mcall.fn = "assessDataQuality"
    /\ Cardinality(Present(mcall.input)) = 4
    /\ \E f \in CriticalFields : mcall.input[f] = Undefined
    /\ \E f \in CriticalFields : mcall.input[f] = Num(0)
    /\ mcall.result = "complete"

\* C35: zero is a value. When the response supplies 0 for a numeric field
\* (returnOnEquity, returnOnAssets, eps), the payload and the derived metrics
\* carry 0 for it and the field counts as present in the tier.
C35_ZeroIsAValue ==
    mcall.fn = "convertToFinancialMetrics" =>
        LET quote == mcall.input.quote
            quoteData == mcall.input.quoteData
            metrics == mcall.result.metrics
        IN  /\ quote.eps = Num(0) => quoteData.eps = Num(0)
            /\ quote.returnOnEquity \in {Num(0), StrNum(0)} =>
                  /\ quoteData.returnOnEquity = Num(0)
                  /\ metrics.roe = Num(0)
            /\ quote.returnOnAssets \in {Num(0), StrNum(0)} =>
                  /\ quoteData.returnOnAssets = Num(0)
                  /\ metrics.roic = Num(0)
            /\ (quote.returnOnEquity = Num(0) /\ quote.returnOnAssets = Num(0)) =>
                  metrics.dataQuality = "partial"

\* C32: determinism. The record computed from a payload is the same in every
\* field whatever the clock reads when it is computed.
C32_Determinism ==
    mcall.fn = "convertToFinancialMetrics" =>
        \A t \in Days :
            convertToFinancialMetrics(mcall.input.quoteData, t) = mcall.result.metrics

\* C31: computeSharpeRatio3Y returns null for every price history with fewer
\* than 756 (252 x 3) observations, whatever the prices, the dates and the
\* risk-free rate.
C31_SharpeNeedsThreeYears ==
    (mcall.fn = "computeSharpeRatio3Y" /\ Len(mcall.input[1]) < 756) =>
        mcall.result = Null

\* 755 observations with moving prices and good dates: null.
C31_Witness ==
    /\ mcall.fn = "computeSharpeRatio3Y"
    /\ Len(mcall.input[1]) = 755
    /\ ~ZeroVolatility(mcall.input[1])
    /\ mcall.input[1][1].date[1] = "date"
    /\ mcall.result = Null

\* C39: progress throttling. In a run driven by the CLI, two progress lines
\* are never printed less than 5 seconds apart: a report that arrives less
\* than 5 seconds after the last printed line prints nothing.
C39_ProgressThrottled ==
    \A k \in 2..Len(lines) : lines[k] - lines[k - 1] >= 5

====
